---- MODULE Spec2Model ----
(***************************************************************************)
(* Model of the BibleSearch repository: the corpus build of the terminal   *)
(* reader (bible_reader.py) and of the web UI (streamlit_app.py), the      *)
(* search of both surfaces and the chapter navigation of the web UI.       *)
(*                                                                         *)
(* A Python str is a sequence of one-character strings.  The regular       *)
(* expressions the code hands to re.compile are pattern STRINGS; the model *)
(* escapes, concatenates, parses and matches them as the re module does,   *)
(* for the pattern syntax listed at ParseSeq.                              *)
(***************************************************************************)
EXTENDS Integers, Sequences, FiniteSets, TLC

\* app    which program runs: "terminal" (bible_reader.py) or "web"
\*        (streamlit_app.py)
\* raw    the mapping read from verses-1769.json, in its order: a sequence of
\*        [ref, txt] with distinct refs
\* pc     "build" the build loop runs, "menu" the program waits for a
\*        command (the web page shows a chapter), "prompt" search waits for
\*        the answer to its hit list, "returned" search has returned to
\*        main, "shown" the web page shows a search, "rerun" a callback of
\*        the web page has run and the script is about to run again,
\*        "nobooks" the web script stopped at its session defaults,
\*        "crashed" an exception ended the program
\* i      the entries of raw the build loop has consumed
\* bible  the nested index book -> chapter -> verse -> text
\* books  list(bible.keys()) of the web UI
\* diag   the references the terminal reader reported as unparseable
\* out    what the last search did
\* session_state  st.session_state of the web UI: book, chap, view
VARIABLES app, raw, pc, i, bible, books, diag, out, session_state

vars == <<app, raw, pc, i, bible, books, diag, out, session_state>>

\* ------------------------------------------------------------------ bounds

\* Longest verse text of the generated one-entry corpora.
MaxTextLen == 3

\* Most entries of a corpus drawn from the entry pool.
MaxEntries == 2

\* ------------------------------------------------------------- characters

BS == "\\"
NL == "\n"
QUOTE == "\""

LowerLetters == {"a", "b", "c", "i", "j", "r", "x"}
UpperLetters == {"A", "B", "J", "R"}
Digits == {"0", "1", "3", "5"}

\* str.isspace for the characters of the model
IsSpace(c) == c \in {" ", NL}

\* a word character of the re module: [a-zA-Z0-9_]
IsWord(c) == c \in LowerLetters \cup UpperLetters \cup Digits \cup {"_"}

IsAlnum(c) == c \in LowerLetters \cup UpperLetters \cup Digits

\* str.lower on one character
Lower(c) ==
    CASE c = "A" -> "a"
      [] c = "B" -> "b"
      [] c = "J" -> "j"
      [] c = "R" -> "r"
      [] OTHER -> c

DigitVal(c) ==
    CASE c = "0" -> 0
      [] c = "1" -> 1
      [] c = "3" -> 3
      [] c = "5" -> 5

\* ---------------------------------------------------------------- strings

\* s[a:b] of Python for 0 <= a, b <= len(s): the characters a+1 .. b
Slice(s, a, b) == IF b <= a THEN <<>> ELSE SubSeq(s, a + 1, b)

StartsWith(s, p) == Len(p) <= Len(s) /\ SubSeq(s, 1, Len(p)) = p

EndsWith(s, p) ==
    Len(p) <= Len(s) /\ SubSeq(s, Len(s) - Len(p) + 1, Len(s)) = p

\* the 1-based positions at which p occurs in s
FindAll(s, p) ==
    {k \in 1..(Len(s) - Len(p) + 1) : SubSeq(s, k, k + Len(p) - 1) = p}

\* p in s
Contains(s, p) == FindAll(s, p) # {}

Min(S) == CHOOSE x \in S : \A y \in S : x <= y
Max(S) == CHOOSE x \in S : \A y \in S : y <= x

RECURSIVE Concat(_)
\* "".join(ss)
Concat(ss) == IF ss = <<>> THEN <<>> ELSE Head(ss) \o Concat(Tail(ss))

RECURSIVE Join(_, _)
\* sep.join(ss)
Join(sep, ss) ==
    IF ss = <<>> THEN <<>>
    ELSE IF Len(ss) = 1 THEN ss[1]
    ELSE ss[1] \o sep \o Join(sep, Tail(ss))

RECURSIVE SplitOn(_, _)
\* s.split(sep) for a non-empty sep: leftmost non-overlapping occurrences
SplitOn(s, sep) ==
    LET at == FindAll(s, sep) IN
    IF at = {} THEN <<s>>
    ELSE LET k == Min(at) IN
         <<SubSeq(s, 1, k - 1)>> \o SplitOn(SubSeq(s, k + Len(sep), Len(s)), sep)

RECURSIVE LStrip(_)
LStrip(s) == IF s # <<>> /\ IsSpace(Head(s)) THEN LStrip(Tail(s)) ELSE s

RECURSIVE RStrip(_)
RStrip(s) ==
    IF s # <<>> /\ IsSpace(s[Len(s)]) THEN RStrip(SubSeq(s, 1, Len(s) - 1)) ELSE s

\* s.strip()
Strip(s) == LStrip(RStrip(s))

RECURSIVE SplitWs(_)
\* s.split(): the maximal runs of non-whitespace characters
SplitWs(s) ==
    LET t == LStrip(s) IN
    IF t = <<>> THEN <<>>
    ELSE LET ws == {k \in 1..Len(t) : IsSpace(t[k])}
             e  == IF ws = {} THEN Len(t) + 1 ELSE Min(ws)
         IN  <<SubSeq(t, 1, e - 1)>> \o SplitWs(SubSeq(t, e, Len(t)))

\* s.rsplit(":", 1): one piece when s has no ":", else the text before and
\* after the last ":"
RSplitColon(s) ==
    LET at == {k \in 1..Len(s) : s[k] = ":"} IN
    IF at = {} THEN <<s>>
    ELSE <<SubSeq(s, 1, Max(at) - 1), SubSeq(s, Max(at) + 1, Len(s))>>

RECURSIVE DigitsVal(_)
DigitsVal(ds) ==
    IF ds = <<>> THEN 0
    ELSE 10 * DigitsVal(SubSeq(ds, 1, Len(ds) - 1)) + DigitVal(ds[Len(ds)])

\* int(s): surrounding whitespace and one sign are accepted, then one or more
\* digits; anything else raises ValueError.  (The keys of the model hold no
\* "_", which int also accepts between digits.)
ParseInt(s) ==
    LET t    == Strip(s)
        sgn  == t # <<>> /\ t[1] \in {"-", "+"}
        body == IF sgn THEN Tail(t) ELSE t
    IN  IF body = <<>> \/ \E k \in 1..Len(body) : body[k] \notin Digits
        THEN [ok |-> FALSE, val |-> 0]
        ELSE [ok |-> TRUE,
              val |-> IF sgn /\ t[1] = "-" THEN 0 - DigitsVal(body)
                      ELSE DigitsVal(body)]

\* ---------------------------------------------------------------------- re

\* The characters re.escape puts a backslash before (those of the model's
\* alphabet among ()[]{}?*+-|^$\.&~# and the whitespace characters).
EscapedChars == {"(", ")", "?", "*", "-", "|", BS, ".", "&", " ", NL}

RECURSIVE ReEscape(_)
\* re.escape(s)
ReEscape(s) ==
    IF s = <<>> THEN <<>>
    ELSE (IF Head(s) \in EscapedChars THEN <<BS, Head(s)>> ELSE <<Head(s)>>)
         \o ReEscape(Tail(s))

\* The parsed pattern is a tree of nodes:
\*   [t |-> "lit", c]   one character        [t |-> "any"]   "." (no newline)
\*   [t |-> "wb"]       \b                   [t |-> "cat", rs]  sequence
\*   [t |-> "alt", rs]  alternation          [t |-> "look", r]  (?=...)
\*   [t |-> "grp", r]   (...)                [t |-> "rep", r, one]  r* or, with
\*                                          one, r?
ParseErr == [err |-> TRUE, node |-> [t |-> "cat", rs |-> <<>>], next |-> 0]

Parsed(n, k) == [err |-> FALSE, node |-> n, next |-> k]

\* a quantifier at p[k], with the "?" that makes it lazy when one follows
QuantEnd(p, k) == IF k < Len(p) /\ p[k + 1] = "?" THEN k + 2 ELSE k + 1

RECURSIVE ParseSub(_, _, _), ParseSeq(_, _, _)

\* sre_parse._parse_sub: branches separated by "|", up to ")" or the end
ParseSub(p, k, done) ==
    LET s == ParseSeq(p, k, <<>>) IN
    IF s.err THEN ParseErr
    ELSE LET bs == Append(done, s.node) IN
         IF s.next <= Len(p) /\ p[s.next] = "|"
         THEN ParseSub(p, s.next + 1, bs)
         ELSE Parsed(IF Len(bs) = 1 THEN bs[1] ELSE [t |-> "alt", rs |-> bs],
                     s.next)

\* sre_parse._parse: the items of one branch.  Syntax of the model: literal
\* characters, "\" escapes ("\b" the word boundary, "\" before a
\* non-alphanumeric character that character; "\" before another letter or a
\* digit is a class, a group reference or a bad escape and is not part of the
\* modelled syntax: no pattern of the model holds one), ".", the quantifiers
\* "*" and "?" (lazy with a following "?"), groups "(...)" and lookaheads
\* "(?=...)".  The errors are those re.compile raises: nothing to repeat,
\* multiple repeat, bad escape (end of pattern), missing ), unknown extension.
ParseSeq(p, k, items) ==
    IF k > Len(p) \/ p[k] \in {"|", ")"}
    THEN Parsed([t |-> "cat", rs |-> items], k)
    ELSE LET c == p[k] IN
      CASE c = BS ->
             IF k = Len(p) THEN ParseErr
             ELSE IF p[k + 1] = "b"
                  THEN ParseSeq(p, k + 2, Append(items, [t |-> "wb"]))
             ELSE IF IsAlnum(p[k + 1]) THEN ParseErr
             ELSE ParseSeq(p, k + 2, Append(items, [t |-> "lit", c |-> p[k + 1]]))
        [] c = "." -> ParseSeq(p, k + 1, Append(items, [t |-> "any"]))
        [] c \in {"*", "?"} ->
             IF items = <<>> \/ items[Len(items)].t \in {"wb", "rep"}
             THEN ParseErr
             ELSE ParseSeq(p, QuantEnd(p, k),
                           [items EXCEPT ![Len(items)] =
                               [t |-> "rep", r |-> items[Len(items)],
                                one |-> (c = "?")]])
        [] c = "(" ->
             LET look == k + 2 <= Len(p) /\ p[k + 1] = "?" /\ p[k + 2] = "="
                 ext  == k + 1 <= Len(p) /\ p[k + 1] = "?"
                 sub  == ParseSub(p, IF look THEN k + 3 ELSE k + 1, <<>>)
             IN  IF ext /\ ~look THEN ParseErr
                 ELSE IF sub.err \/ sub.next > Len(p) THEN ParseErr
                 ELSE ParseSeq(p, sub.next + 1,
                               Append(items,
                                      IF look THEN [t |-> "look", r |-> sub.node]
                                      ELSE [t |-> "grp", r |-> sub.node]))
        [] OTHER -> ParseSeq(p, k + 1, Append(items, [t |-> "lit", c |-> c]))

\* re.compile(body, 0 if cs else re.IGNORECASE): the compiled pattern, or
\* err when re.compile raises re.error (a ")" left over is an unbalanced
\* parenthesis)
_compile(body, cs) ==
    LET r == ParseSub(body, 1, <<>>) IN
    [err  |-> r.err \/ r.next <= Len(body),
     node |-> r.node,
     ic   |-> ~cs,
     body |-> body]

\* \b between the characters k and k+1 of t (k in 0..Len(t))
AtBoundary(t, k) ==
    LET before == k >= 1 /\ IsWord(t[k])
        after  == k < Len(t) /\ IsWord(t[k + 1])
    IN  before # after

RECURSIVE Ends(_, _, _, _), CatEnds(_, _, _, _), RepEnds(_, _, _, _, _)

\* The positions (characters consumed, 0..Len(t)) at which a match of node n
\* that starts at position k of t can end.
Ends(n, t, k, ic) ==
    CASE n.t = "lit" ->
           IF k < Len(t) /\ (IF ic THEN Lower(t[k + 1]) = Lower(n.c)
                             ELSE t[k + 1] = n.c)
           THEN {k + 1} ELSE {}
      [] n.t = "any" -> IF k < Len(t) /\ t[k + 1] # NL THEN {k + 1} ELSE {}
      [] n.t = "wb" -> IF AtBoundary(t, k) THEN {k} ELSE {}
      [] n.t = "cat" -> CatEnds(n.rs, t, {k}, ic)
      [] n.t = "alt" ->
           UNION {Ends(n.rs[b], t, k, ic) : b \in 1..Len(n.rs)}
      [] n.t = "look" -> IF Ends(n.r, t, k, ic) # {} THEN {k} ELSE {}
      [] n.t = "grp" -> Ends(n.r, t, k, ic)
      [] n.t = "rep" ->
           IF n.one THEN {k} \cup Ends(n.r, t, k, ic)
           ELSE RepEnds(n.r, t, {k}, {k}, ic)

CatEnds(rs, t, from, ic) ==
    IF rs = <<>> \/ from = {} THEN from
    ELSE CatEnds(Tail(rs), t, UNION {Ends(Head(rs), t, k, ic) : k \in from}, ic)

\* r*: the positions reachable by repeating r from the frontier
RepEnds(r, t, seen, frontier, ic) ==
    LET more == UNION {Ends(r, t, k, ic) : k \in frontier} \ seen IN
    IF more = {} THEN seen ELSE RepEnds(r, t, seen \cup more, more, ic)

\* pattern.search(t) is not None: a match starts somewhere in t
Search(pattern, t) ==
    \E k \in 0..Len(t) : Ends(pattern.node, t, k, pattern.ic) # {}

\* ------------------------------------------------------------ corpus build

\* the empty dict
Empty == [x \in {} |-> x]

\* What one pass of the loop body's try block does to a key, up to the
\* store: rsplit and int raise ValueError, parts[-1] on an empty list raises
\* IndexError.
\*   kind "ok"     the key decodes to (book, chap, verse)
\*   kind "value"  ValueError from the unpacking of rsplit's result or from
\*                 int(parts[-1]); atVerse: from int(verse), after book and
\*                 chap were computed
\*   kind "index"  IndexError from parts[-1]
Decode(ref) ==
    LET sp    == RSplitColon(ref)
        parts == SplitWs(sp[1])
        book  == Join(<<" ">>, SubSeq(parts, 1, Len(parts) - 1))
        chap  == ParseInt(parts[Len(parts)])
        verse == ParseInt(sp[2])
        none  == [kind |-> "value", atVerse |-> FALSE, book |-> <<>>,
                  chap |-> 0, verse |-> 0]
    IN  IF Len(sp) = 1 THEN none
        ELSE IF parts = <<>> THEN [none EXCEPT !.kind = "index"]
        ELSE IF ~chap.ok THEN none
        ELSE IF ~verse.ok
             THEN [none EXCEPT !.atVerse = TRUE, !.book = book, !.chap = chap.val]
        ELSE [kind |-> "ok", atVerse |-> FALSE, book |-> book,
              chap |-> chap.val, verse |-> verse.val]

\* bible[book][chap] on the defaultdict of defaultdicts: reading it creates
\* the book and the chapter when they are missing
Touch(b, book, chap) ==
    LET bb == IF book \in DOMAIN b THEN b[book] ELSE Empty
        cc == IF chap \in DOMAIN bb THEN bb[chap] ELSE Empty
    IN  (book :> ((chap :> cc) @@ bb)) @@ b

\* bible[book][chap][verse] = txt
Store(b, book, chap, verse, txt) ==
    LET t == Touch(b, book, chap) IN
    (book :> ((chap :> ((verse :> txt) @@ t[book][chap])) @@ t[book])) @@ t

\* One iteration of the terminal reader's build loop (bible_reader.py
\* 104-112) on entry e: the index, the diagnostics and whether the iteration
\* ends with an exception no handler catches.
BuildEntry(b, dg, e) ==
    LET d == Decode(e.ref) IN
    CASE d.kind = "ok" ->
           [bible |-> Store(b, d.book, d.chap, d.verse, e.txt), diag |-> dg,
            crash |-> FALSE]
      [] d.kind = "value" ->
           \* the target bible[book][chap] is evaluated before int(verse)
           [bible |-> IF d.atVerse THEN Touch(b, d.book, d.chap) ELSE b,
            diag |-> Append(dg, e.ref), crash |-> FALSE]
      [] d.kind = "index" -> [bible |-> b, diag |-> dg, crash |-> TRUE]

RECURSIVE LoadFrom(_, _, _, _)
\* the loop of load_bible over entries k.. of r (streamlit_app.py 47-56):
\* int(verse) runs inside the try, the store after it
LoadFrom(r, k, b, order) ==
    IF k > Len(r) THEN [status |-> "loaded", bible |-> b, books |-> order]
    ELSE LET d == Decode(r[k].ref) IN
      CASE d.kind = "ok" ->
             \* bible.setdefault(book, {}).setdefault(chap, {})[verse_num] = txt
             LoadFrom(r, k + 1, Store(b, d.book, d.chap, d.verse, r[k].txt),
                      IF d.book \in DOMAIN b THEN order ELSE Append(order, d.book))
        [] d.kind = "value" -> LoadFrom(r, k + 1, b, order)
        [] d.kind = "index" ->
             [status |-> "crashed", bible |-> Empty, books |-> <<>>]

\* load_bible() and books = list(bible.keys())
load_bible(r) == LoadFrom(r, 1, Empty, <<>>)

\* ------------------------------------------------------------------ search

AND_SEP == <<" ", "&", " ">>
OR_SEP == <<" ", "|", " ">>

\* CaseFlag with the flag read but left on the query.
CaseFlag_KeepsSuffix(query) ==
    IF EndsWith(query, <<":", "c">>)
    THEN [some |-> TRUE, val |-> TRUE, q |-> query]
    ELSE IF EndsWith(query, <<":", "i">>)
    THEN [some |-> TRUE, val |-> FALSE, q |-> query]
    ELSE [some |-> FALSE, val |-> FALSE, q |-> query]

\* the case flags of search (bible_reader.py 219-223): cs is None (some
\* FALSE), True or False, and the query without the flag
CaseFlag(query) ==
    IF EndsWith(query, <<":", "c">>)
    THEN [some |-> TRUE, val |-> TRUE, q |-> Slice(query, 0, Len(query) - 2)]
    ELSE IF EndsWith(query, <<":", "i">>)
    THEN [some |-> TRUE, val |-> FALSE, q |-> Slice(query, 0, Len(query) - 2)]
    ELSE [some |-> FALSE, val |-> FALSE, q |-> query]

\* cs or False
CsOrFalse(f) == f.some /\ f.val

\* tok[1:-1]
Interior(tok) == Slice(tok, 1, Len(tok) - 1)

\* tok.startswith('"') and tok.endswith('"')
IsQuoted(tok) == StartsWith(tok, <<QUOTE>>) /\ EndsWith(tok, <<QUOTE>>)

_token_to_regex(tok) ==
    IF IsQuoted(tok) THEN ReEscape(Interior(tok))
    ELSE IF StartsWith(tok, <<"=">>)
    THEN <<BS, "b">> \o ReEscape(Tail(tok)) \o <<BS, "b">>
    ELSE ReEscape(tok)

\* query.startswith("/") and query.endswith("/") and len(query) >= 3
IsRegexForm(q) ==
    StartsWith(q, <<"/">>) /\ EndsWith(q, <<"/">>) /\ Len(q) >= 3

\* " & " in query and " | " in query
IsMixed(q) == Contains(q, AND_SEP) /\ Contains(q, OR_SEP)

\* [f(p.strip()) for p in parts] with f = _token_to_regex
Fragments(parts) == [k \in 1..Len(parts) |-> _token_to_regex(Strip(parts[k]))]

\* "".join(f"(?=.*{...})" for p in parts) + ".*"
AndRegex(parts) ==
    Concat([k \in 1..Len(parts) |->
               <<"(", "?", "=", ".", "*">> \o Fragments(parts)[k] \o <<")">>])
    \o <<".", "*">>

\* OrRegex with the fragments joined by nothing.
OrRegex_Concatenated(parts) == Concat(Fragments(parts))

\* "|".join(...)
OrRegex(parts) == Join(<<"|">>, Fragments(parts))

\* SingleToken with no word boundary after the word.
SingleToken_OpenEnded(q) ==
    IF IsQuoted(q)
    THEN [mixed |-> FALSE, body |-> ReEscape(Interior(q)), label |-> "phrase"]
    ELSE IF StartsWith(q, <<"=">>)
    THEN [mixed |-> FALSE, body |-> <<BS, "b">> \o ReEscape(Tail(q)),
          label |-> "whole-word"]
    ELSE [mixed |-> FALSE, body |-> ReEscape(q), label |-> "substring"]

\* the single-token branch of search (bible_reader.py 245-250)
SingleToken(q) ==
    IF IsQuoted(q)
    THEN [mixed |-> FALSE, body |-> ReEscape(Interior(q)), label |-> "phrase"]
    ELSE IF StartsWith(q, <<"=">>)
    THEN [mixed |-> FALSE,
          body |-> <<BS, "b">> \o ReEscape(Tail(q)) \o <<BS, "b">>,
          label |-> "whole-word"]
    ELSE [mixed |-> FALSE, body |-> ReEscape(q), label |-> "substring"]

\* Classify with the AND and OR forms tried before the mixed-operator test.
Classify_MixedLast(q) ==
    IF IsRegexForm(q)
    THEN [mixed |-> FALSE, body |-> Interior(q), label |-> "regex"]
    ELSE IF Contains(q, AND_SEP)
    THEN [mixed |-> FALSE, body |-> AndRegex(SplitOn(q, AND_SEP)), label |-> "AND"]
    ELSE IF Contains(q, OR_SEP)
    THEN [mixed |-> FALSE, body |-> OrRegex(SplitOn(q, OR_SEP)), label |-> "OR"]
    ELSE IF IsMixed(q)
    THEN [mixed |-> TRUE, body |-> <<>>, label |-> "none"]
    ELSE SingleToken(q)

\* Classify with the regex form tried after the boolean forms.
Classify_RegexLast(q) ==
    IF IsMixed(q)
    THEN [mixed |-> TRUE, body |-> <<>>, label |-> "none"]
    ELSE IF Contains(q, AND_SEP)
    THEN [mixed |-> FALSE, body |-> AndRegex(SplitOn(q, AND_SEP)), label |-> "AND"]
    ELSE IF Contains(q, OR_SEP)
    THEN [mixed |-> FALSE, body |-> OrRegex(SplitOn(q, OR_SEP)), label |-> "OR"]
    ELSE IF IsRegexForm(q)
    THEN [mixed |-> FALSE, body |-> Interior(q), label |-> "regex"]
    ELSE SingleToken(q)

\* The pattern body and label search builds for the query q left after the
\* flag (bible_reader.py 226-251); mixed: the query is turned down before
\* any pattern is built.
Classify(q) ==
    IF IsRegexForm(q)
    THEN [mixed |-> FALSE, body |-> Interior(q), label |-> "regex"]
    ELSE IF IsMixed(q)
    THEN [mixed |-> TRUE, body |-> <<>>, label |-> "none"]
    ELSE IF Contains(q, AND_SEP)
    THEN [mixed |-> FALSE, body |-> AndRegex(SplitOn(q, AND_SEP)), label |-> "AND"]
    ELSE IF Contains(q, OR_SEP)
    THEN [mixed |-> FALSE, body |-> OrRegex(SplitOn(q, OR_SEP)), label |-> "OR"]
    ELSE SingleToken(q)

RECURSIVE Reverse(_)
Reverse(s) == IF s = <<>> THEN <<>> ELSE Append(Reverse(Tail(s)), Head(s))

\* Hits with the matching entries collected last to first.
Hits_Reversed(r, pattern) ==
    Reverse(SelectSeq(r, LAMBDA e : Search(pattern, e.txt)))

\* hits = [(r, t) for r, t in raw.items() if pattern.search(t)]
Hits(r, pattern) == SelectSeq(r, LAMBDA e : Search(pattern, e.txt))

\* f"{r}: {t}"
HitLine(e) == e.ref \o <<":", " ">> \o e.txt

\* Ctx with nothing between the lines.
Ctx_Unseparated(hits) == Concat([k \in 1..Len(hits) |-> HitLine(hits[k])])

\* ctx = "\n".join(f"{r}: {t}" for r, t in hits)
Ctx(hits) == Join(<<NL>>, [k \in 1..Len(hits) |-> HitLine(hits[k])])

\* The record of a search: the surface that ran it, the query handed to it,
\* its outcome, the hit list, the label and case note of the header, what
\* the terminal reader's search returns (loc, book, chap, ctx), whether a
\* pattern was compiled and how many entries were tested against it.
NoOut ==
    [surface |-> "none", query |-> <<>>, outcome |-> "none", hits |-> <<>>,
     label |-> "none", cs |-> FALSE, loc |-> FALSE, book |-> <<>>, chap |-> 0,
     ctx |-> <<>>, compiled |-> FALSE, tested |-> 0]

\* What search does after the hit list is printed, on the user's answer to
\* "Result # | ai | Enter" (bible_reader.py 265-275): choice 0 is "ai", a
\* choice k in 1..len(hits) is that number typed, any other choice is an
\* answer that is neither.
Answer(o, choice) ==
    IF choice = 0 THEN o
    ELSE IF choice \in 1..Len(o.hits)
    THEN LET sp    == RSplitColon(o.hits[choice].ref)
             parts == SplitWs(sp[1])
             chap  == ParseInt(parts[Len(parts)])
         IN  IF Len(sp) = 1 \/ parts = <<>> \/ ~chap.ok
             THEN [o EXCEPT !.outcome = "raised"]
             ELSE [o EXCEPT !.loc = TRUE,
                            !.book = Join(<<" ">>, SubSeq(parts, 1, Len(parts) - 1)),
                            !.chap = chap.val]
    ELSE [o EXCEPT !.ctx = Ctx(o.hits)]

\* search(query) of the terminal reader on the mapping r, up to the prompt
\* that follows a hit list.  outcome: "mixed" the query is turned down,
\* "raised" an exception leaves search (re.error from re.compile, or later
\* the decoding of the chosen reference), "nomatch", "found".  What search
\* returns is (book, chap) when loc, else (None, ctx).
search(r, query) ==
    LET f    == CaseFlag(query)
        c    == Classify(f.q)
        pat  == _compile(c.body, CsOrFalse(f))
        hits == Hits(r, pat)
        base == [NoOut EXCEPT !.surface = "terminal", !.query = query]
    IN  IF c.mixed THEN [base EXCEPT !.outcome = "mixed"]
        ELSE IF pat.err THEN [base EXCEPT !.outcome = "raised"]
        ELSE [base EXCEPT !.outcome = IF hits = <<>> THEN "nomatch" ELSE "found",
                          !.hits = hits, !.label = c.label, !.cs = ~pat.ic,
                          !.compiled = TRUE, !.tested = Len(r)]

\* the pattern body of the web UI's search block (streamlit_app.py 248-251)
\* for the query q left after the flag: a raw regex or the escaped query
WebBody(q) == IF IsRegexForm(q) THEN Interior(q) ELSE ReEscape(q)

\* The search block of the web UI (streamlit_app.py 237-254) for a non-empty
\* query.
web_search(r, query) ==
    LET f    == CaseFlag(query)
        pat  == _compile(WebBody(f.q), CsOrFalse(f))
        hits == Hits(r, pat)
        base == [NoOut EXCEPT !.surface = "web", !.query = query]
    IN  IF pat.err THEN [base EXCEPT !.outcome = "raised"]
        ELSE [base EXCEPT !.outcome = IF hits = <<>> THEN "nomatch" ELSE "found",
                          !.hits = hits, !.cs = ~pat.ic, !.compiled = TRUE,
                          !.tested = Len(r)]

\* ------------------------------------------------------------- navigation

\* st.session_state before the script has set anything
NoSession == [book |-> <<>>, chap |-> 0, view |-> "unset"]

\* the session defaults (streamlit_app.py 96-99) on the index b with the
\* books bk, and the view selector's first option
SessionDefaults(b, bk) ==
    [book |-> bk[1], chap |-> Min(DOMAIN b[bk[1]]), view |-> "Chapter View"]

\* books.index(book)
BookIndex(book) == CHOOSE k \in 1..Len(books) : books[k] = book

\* book_idx == 0 and chap == first_chap
prev_disabled(s) ==
    BookIndex(s.book) = 1 /\ s.chap = Min(DOMAIN bible[s.book])

\* book_idx == len(books) - 1 and chap == last_chap
next_disabled(s) ==
    BookIndex(s.book) = Len(books) /\ s.chap = Max(DOMAIN bible[s.book])

\* prev_chapter() on the session s
prev_chapter(s) ==
    LET first_ch == Min(DOMAIN bible[s.book])
        book_idx == BookIndex(s.book)
    IN  IF s.chap > first_ch THEN [s EXCEPT !.chap = s.chap - 1]
        ELSE IF book_idx > 1
        THEN [s EXCEPT !.book = books[book_idx - 1],
                       !.chap = Max(DOMAIN bible[books[book_idx - 1]])]
        ELSE s

\* next_chapter() on the session s
next_chapter(s) ==
    LET last_ch  == Max(DOMAIN bible[s.book])
        book_idx == BookIndex(s.book)
    IN  IF s.chap < last_ch THEN [s EXCEPT !.chap = s.chap + 1]
        ELSE IF book_idx < Len(books)
        THEN [s EXCEPT !.book = books[book_idx + 1],
                       !.chap = Min(DOMAIN bible[books[book_idx + 1]])]
        ELSE s

\* go_to_ref(ref) on the session s: the view, then the book, then the
\* chapter are assigned; parts[-1] raises IndexError on an empty list and
\* int raises ValueError, both after the book was assigned
go_to_ref(s, ref) ==
    LET parts == SplitWs(RSplitColon(ref)[1])
        book  == IF parts = <<>> THEN <<>>
                 ELSE Join(<<" ">>, SubSeq(parts, 1, Len(parts) - 1))
        chap  == IF parts = <<>> THEN [ok |-> FALSE, val |-> 0]
                 ELSE ParseInt(parts[Len(parts)])
        s1    == [s EXCEPT !.view = "Chapter View", !.book = book]
    IN  IF chap.ok THEN [session |-> [s1 EXCEPT !.chap = chap.val], raised |-> FALSE]
        ELSE [session |-> s1, raised |-> TRUE]

\* bible[book][chap] exists for the session s
ChapterExists(s) == s.book \in DOMAIN bible /\ s.chap \in DOMAIN bible[s.book]

\* both selectboxes back on an option they have: the session's value if it
\* is one, else the first
FirstOptions(s) ==
    LET book == IF s.book \in DOMAIN bible THEN s.book ELSE books[1]
        chap == IF s.chap \in DOMAIN bible[book] THEN s.chap
                ELSE Min(DOMAIN bible[book])
    IN  [s EXCEPT !.book = book, !.chap = chap]

\* ------------------------------------------------------------------ inputs

RECURSIVE SeqsUpTo(_, _)
\* the sequences over S of length at most n
SeqsUpTo(S, n) ==
    IF n = 0 THEN {<<>>}
    ELSE LET shorter == SeqsUpTo(S, n - 1) IN
         shorter \cup {Append(s, c) : s \in shorter, c \in S}

\* the characters of the generated verse texts: two letters, a capital, a
\* punctuation mark that is also a regex metacharacter, a space, a line break
TextChars == {"a", "b", "A", ".", " ", NL}

Texts == SeqsUpTo(TextChars, MaxTextLen)

\* A valid key for the generated one-entry corpora.
GoodRef == <<"J", " ", "3", ":", "1">>

\* The entries the multi-entry corpora are drawn from: valid keys (two books,
\* two chapters of one book) and one malformed key of each kind.
EntryPool ==
    { [ref |-> GoodRef,                        txt |-> <<"b", " ", "a">>],
      [ref |-> <<"R", " ", "5", ":", "3">>,    txt |-> <<"a">>],
      [ref |-> <<"J", " ", "1", ":", "1">>,    txt |-> <<"b">>],
      [ref |-> <<"B", "a", "d">>,              txt |-> <<"a", ".">>],
      [ref |-> <<":", "5">>,                   txt |-> <<"b">>],
      [ref |-> <<" ", ":", "5">>,              txt |-> <<"A">>],
      [ref |-> <<"J", " ", "x", ":", "1">>,    txt |-> <<"A">>],
      [ref |-> <<"J", " ", "3", ":", "x">>,    txt |-> <<"a", NL, "b">>] }

\* a dict holds a key once
DistinctRefs(r) ==
    \A j, k \in 1..Len(r) : r[j].ref = r[k].ref => j = k

Corpora == {r \in SeqsUpTo(EntryPool, MaxEntries) : DistinctRefs(r)}

TextCorpora == {<<[ref |-> GoodRef, txt |-> t]>> : t \in Texts}

\* The keys of the corpora that exercise the decoding: valid keys (two
\* chapters of one book that are not neighbours, a second book, a book name
\* of two words), keys int() accepts in a second spelling or with a value
\* below one, a key with no book name, and one malformed key of each kind.
KeyPool ==
    { [ref |-> GoodRef,                                  txt |-> <<"a">>],
      [ref |-> <<"J", " ", "5", ":", "1">>,              txt |-> <<"b">>],
      [ref |-> <<"R", " ", "1", ":", "1">>,              txt |-> <<"a">>],
      [ref |-> <<"1", " ", "J", " ", "3", ":", "1">>,    txt |-> <<"b">>],
      [ref |-> <<"J", " ", "0", "3", ":", "1">>,         txt |-> <<"b">>],
      [ref |-> <<"J", " ", "3", ":", " ", "1">>,         txt |-> <<"A">>],
      [ref |-> <<"J", " ", "0", ":", "1">>,              txt |-> <<"b">>],
      [ref |-> <<"J", " ", "3", ":", "-", "1">>,         txt |-> <<"a">>],
      [ref |-> <<"5", ":", "3">>,                        txt |-> <<"a">>],
      [ref |-> <<"J", " ", "3", ":", "x">>,              txt |-> <<"a">>],
      [ref |-> <<":", "5">>,                             txt |-> <<"b">>],
      [ref |-> <<"B", "a", "d">>,                        txt |-> <<"a">>] }

KeyCorpora == {r \in SeqsUpTo(KeyPool, MaxEntries) : DistinctRefs(r)}

\* The operands of the boolean queries.
Operands ==
    { <<"a">>, <<"b">>, <<"=", "a">>, <<QUOTE, "a", ".", "b", QUOTE>> }

SingleTerms ==
    { <<>>, <<" ">>, <<"a">>, <<"A">>, <<"b">>, <<".">>, <<"a", "b">>,
      <<"a", ".", "b">>, <<"a", " ", "b">>, <<" ", "a", " ">>,
      <<"=", "a">>, <<"=", "A">>, <<"=", "a", "b">>, <<"=">>, <<"=", ".">>,
      <<QUOTE>>, <<QUOTE, QUOTE>>, <<QUOTE, "a", QUOTE>>,
      <<QUOTE, "a", ".", "b", QUOTE>>, <<QUOTE, "a", " ", "b", QUOTE>>,
      <<QUOTE, "a">> }

AndTerms ==
    {x \o AND_SEP \o y : x, y \in Operands}
    \cup { <<"a">> \o AND_SEP \o <<"b">> \o AND_SEP \o <<".">>,
           <<"a">> \o AND_SEP \o AND_SEP \o <<"b">>,
           <<"a", " ">> \o AND_SEP \o <<" ", "b">> }

OrTerms ==
    {x \o OR_SEP \o y : x, y \in Operands}
    \cup { <<"a">> \o OR_SEP \o <<"b">> \o OR_SEP \o <<".">>,
           <<"a">> \o OR_SEP \o OR_SEP \o <<"b">>,
           <<"a", " ">> \o OR_SEP \o <<" ", "b">> }

MixedTerms ==
    { <<"a">> \o AND_SEP \o <<"b">> \o OR_SEP \o <<"a">>,
      <<"a">> \o OR_SEP \o <<"b">> \o AND_SEP \o <<"a">>,
      <<"=", "a">> \o AND_SEP \o OR_SEP \o <<QUOTE, "b", QUOTE>>,
      <<"/", "a">> \o AND_SEP \o <<"b">> \o OR_SEP \o <<"a", "/">>,
      <<"/">> \o AND_SEP \o OR_SEP \o <<"/">>,
      <<"/", "a">> \o AND_SEP \o <<"b">> \o OR_SEP \o <<"a">> }

RegexTerms ==
    { <<"/", "a", ".", "*", "b", "/">>, <<"/", "a", ".", "b", "/">>,
      <<"/", ".", "/">>, <<"/", "a", "|", "b", "/">>, <<"/", "(", "/">>,
      <<"/", "a", "*", "/">>, <<"/", "*", "/">>, <<"/", "/">>, <<"/">>,
      <<"/", "a">> \o AND_SEP \o <<"b", "/">>,
      <<"/", "a">> \o OR_SEP \o <<"b", "/">>,
      <<"/", BS, "b", "a", BS, "b", "/">>, <<"/", "=", "a", "/">>,
      <<"/", QUOTE, "a", QUOTE, "/">> }

\* The queries that also come with a case flag.
FlagBase ==
    { <<>>, <<"a">>, <<"A">>, <<"=", "a">>, <<QUOTE, "a", ".", "b", QUOTE>>,
      <<"/", "a", ".", "b", "/">>, <<"/", "A", "/">>,
      <<"a">> \o AND_SEP \o <<"b">>, <<"A">> \o OR_SEP \o <<"b">>,
      <<"a">> \o AND_SEP \o <<"b">> \o OR_SEP \o <<"a">>,
      <<"a", ":", "c">> }

Flags == {<<":", "c">>, <<":", "i">>}

\* What the user types as a search term.
Terms ==
    SingleTerms \cup AndTerms \cup OrTerms \cup MixedTerms \cup RegexTerms
    \cup {t \o f : t \in FlagBase, f \in Flags}

\* The answers to the prompt after a hit list: -1 anything else (Enter),
\* 0 "ai", k the number k.
Choices == -1..MaxEntries

\* ----------------------------------------------------------- specification

StartState(r) ==
    /\ app \in {"terminal", "web"}
    /\ raw = r
    /\ pc = "build"
    /\ i = 0
    /\ bible = Empty
    /\ books = <<>>
    /\ diag = <<>>
    /\ out = NoOut
    /\ session_state = NoSession

Init == \E r \in Corpora : StartState(r)

\* One iteration of "for ref, txt in raw.items()" (bible_reader.py 104-112).
BuildStep ==
    /\ app = "terminal" /\ pc = "build" /\ i < Len(raw)
    /\ LET b == BuildEntry(bible, diag, raw[i + 1]) IN
        /\ bible' = b.bible
        /\ diag' = b.diag
        /\ pc' = IF b.crash THEN "crashed" ELSE "build"
    /\ i' = i + 1
    /\ UNCHANGED <<app, raw, books, out, session_state>>

\* The loop is over: the module's definitions follow and main() starts.
StartMain ==
    /\ app = "terminal" /\ pc = "build" /\ i = Len(raw)
    /\ pc' = "menu"
    /\ UNCHANGED <<app, raw, i, bible, books, diag, out, session_state>>

\* The command "search" of main (bible_reader.py 307-309): the term is
\* stripped and handed to search, which runs up to its return or, after a
\* hit list, up to its prompt.
MainSearch(term) ==
    /\ app = "terminal" /\ pc = "menu"
    /\ out' = search(raw, Strip(term))
    /\ pc' = CASE out'.outcome = "raised" -> "crashed"
               [] out'.outcome = "found" -> "prompt"
               [] OTHER -> "returned"
    /\ UNCHANGED <<app, raw, i, bible, books, diag, session_state>>

\* The user answers the prompt and search returns (bible_reader.py 266-275).
Choose(choice) ==
    /\ app = "terminal" /\ pc = "prompt"
    /\ out' = Answer(out, choice)
    /\ pc' = IF out'.outcome = "raised" THEN "crashed" ELSE "returned"
    /\ UNCHANGED <<app, raw, i, bible, books, diag, session_state>>

\* main takes what search returned (bible_reader.py 309-311) and the loop
\* comes back to the menu, at once or after the chapter view; the hit list
\* is gone with the call.
Continue ==
    /\ app = "terminal" /\ pc = "returned"
    /\ pc' = "menu"
    /\ out' = NoOut
    /\ UNCHANGED <<app, raw, i, bible, books, diag, session_state>>

\* The first run of the script: bible, raw = load_bible(); books =
\* list(bible.keys()) (streamlit_app.py 44-60), then the session defaults
\* (96-99), where books[0] raises on an empty index, and the Chapter View.
LoadBible ==
    /\ app = "web" /\ pc = "build"
    /\ LET l == load_bible(raw) IN
        /\ bible' = l.bible
        /\ books' = l.books
        /\ pc' = IF l.status = "crashed" THEN "crashed"
                 ELSE IF l.books = <<>> THEN "nobooks" ELSE "menu"
        /\ session_state' = IF l.status = "crashed" \/ l.books = <<>>
                            THEN NoSession
                            ELSE SessionDefaults(l.bible, l.books)
    /\ i' = Len(raw)
    /\ UNCHANGED <<app, raw, diag, out>>

\* The user enters a query: _on_search_change sets the view (110-112) and
\* the script runs with the view "Search Results" and a non-empty query
\* (streamlit_app.py 237-254).  The script reaches the block only when the
\* session defaults exist.
WebSearch(query) ==
    /\ app = "web" /\ pc = "menu" /\ books # <<>>
    /\ query # <<>>
    /\ out' = web_search(raw, query)
    /\ pc' = "shown"
    /\ session_state' = [session_state EXCEPT !.view = "Search Results"]
    /\ UNCHANGED <<app, raw, i, bible, books, diag>>

\* The user picks "Chapter View" in the view selector (127) and the script
\* runs again from the session state alone.
Rerun ==
    /\ app = "web" /\ pc = "shown"
    /\ pc' = "menu"
    /\ out' = NoOut
    /\ session_state' = [session_state EXCEPT !.view = "Chapter View"]
    /\ UNCHANGED <<app, raw, i, bible, books, diag>>

\* A click on "Previous Chapter" (streamlit_app.py 179): the button is there
\* in the Chapter View and enabled unless prev_disabled.
PrevChapter ==
    /\ app = "web" /\ pc = "menu"
    /\ session_state.view = "Chapter View" /\ ~prev_disabled(session_state)
    /\ session_state' = prev_chapter(session_state)
    /\ pc' = "rerun"
    /\ UNCHANGED <<app, raw, i, bible, books, diag, out>>

\* A click on "Next Chapter" (streamlit_app.py 180).
NextChapter ==
    /\ app = "web" /\ pc = "menu"
    /\ session_state.view = "Chapter View" /\ ~next_disabled(session_state)
    /\ session_state' = next_chapter(session_state)
    /\ pc' = "rerun"
    /\ UNCHANGED <<app, raw, i, bible, books, diag, out>>

\* A click on the button of hit k of the search shown (streamlit_app.py
\* 264-269): go_to_ref runs on the hit's reference; an exception of the
\* callback ends the run with the assignments made so far.
GoToRef(k) ==
    /\ app = "web" /\ pc = "shown" /\ k \in 1..Len(out.hits)
    /\ LET g == go_to_ref(session_state, out.hits[k].ref) IN
        /\ session_state' = g.session
        /\ pc' = IF g.raised THEN "crashed" ELSE "rerun"
    /\ out' = NoOut
    /\ UNCHANGED <<app, raw, i, bible, books, diag>>

\* The run of the script after a callback (streamlit_app.py 123-124, 167-186,
\* 235).  With a session (book, chap) that names a chapter of the index the
\* page is drawn.  With any other the selectboxes get a value that is not
\* among their options, which is the library's to handle: the run ends
\* with an exception (at the latest the KeyError of bible[book][chap]), or
\* the widgets fall back to their first option.
Render ==
    /\ app = "web" /\ pc = "rerun"
    /\ IF ChapterExists(session_state)
       THEN pc' = "menu" /\ UNCHANGED session_state
       ELSE \/ pc' = "crashed" /\ UNCHANGED session_state
            \/ pc' = "menu" /\ session_state' = FirstOptions(session_state)
    /\ UNCHANGED <<app, raw, i, bible, books, diag, out>>

Next ==
    \/ BuildStep
    \/ StartMain
    \/ \E term \in Terms : MainSearch(term)
    \/ \E choice \in Choices : Choose(choice)
    \/ Continue
    \/ LoadBible
    \/ \E query \in Terms : WebSearch(query)
    \/ Rerun

Spec == Init /\ [][Next]_vars

\* The programs with the chapter navigation of the web UI.
NextNav ==
    \/ Next
    \/ PrevChapter
    \/ NextChapter
    \/ \E k \in 1..MaxEntries : GoToRef(k)
    \/ Render

\* The same programs on every one-entry corpus whose text is a string of at
\* most MaxTextLen characters.
InitText == \E r \in TextCorpora : StartState(r)

SpecText == InitText /\ [][Next]_vars

\* The programs, with the web UI's navigation, on the corpora drawn from
\* KeyPool.
InitKeys == \E r \in KeyCorpora : StartState(r)

SpecKeys == InitKeys /\ [][NextNav]_vars

\* ==================================================================== claims

\* the compiled pattern of the search recorded in o
PatternOf(o) ==
    LET f == CaseFlag(o.query) IN
    _compile(IF o.surface = "terminal" THEN Classify(f.q).body ELSE WebBody(f.q),
             CsOrFalse(f))

\* entry e of the mapping is among the hits
IsHit(e) == \E j \in 1..Len(out.hits) : out.hits[j] = e

\* the entries of r whose key decodes: what the build does not skip
Kept(r) == SelectSeq(r, LAMBDA e : Decode(e.ref).kind = "ok")

\* the hit list the recorded search gives on the mapping r
HitsOn(r, o) ==
    IF o.surface = "terminal" THEN search(r, o.query).hits
    ELSE web_search(r, o.query).hits

\* C1 (as claimed): a search returns exactly the hit list it would return had
\* the entries whose keys fail to decode never been in the raw mapping; no
\* hit carries a reference the build skipped.
C1_SkippedEntriesNeverHit ==
    out.compiled => out.hits = HitsOn(Kept(raw), out)

\* C2 (as claimed): the build never ends with an exception, whatever the
\* malformed key, and the program reaches its menu only after every entry of
\* the raw mapping was processed.
C2_BuildNeverAborts ==
    /\ out.surface = "none" => pc # "crashed"
    /\ pc = "menu" => i = Len(raw)

\* C3 (as claimed): every query that contains both " & " and " | " is turned
\* down as mixed, whatever surrounds the operators; no pattern is built and
\* no entry is tested.
C3_MixedAlwaysRejected ==
    out.surface = "terminal" /\ IsMixed(out.query)
        => out.outcome = "mixed" /\ ~out.compiled /\ out.tested = 0

\* C3 (amended): in the terminal reader a query that contains both " & " and
\* " | " and is not of regex form once its case flag is removed is turned
\* down as mixed: no pattern is built, no entry is tested, nothing is hit.
C3_MixedRejectedUnlessRegex ==
    out.surface = "terminal" /\ IsMixed(out.query)
    /\ ~IsRegexForm(CaseFlag(out.query).q)
        => /\ out.outcome = "mixed"
           /\ ~out.compiled /\ out.tested = 0 /\ out.hits = <<>>
           /\ ~out.loc /\ out.ctx = <<>>

\* C3 witness: a mixed query with a trailing case flag was turned down over a
\* corpus that has entries.
C3_Witness ==
    /\ out.surface = "terminal" /\ out.outcome = "mixed"
    /\ IsMixed(out.query) /\ EndsWith(out.query, <<":", "c">>)
    /\ raw # <<>> /\ pc = "returned"

\* C4 (as claimed): a query that is empty or only whitespace once its case
\* flag is removed fails to compile; no pattern is run for it.
C4_EmptyQueryRejected ==
    out.surface # "none" /\ Strip(CaseFlag(out.query).q) = <<>>
        => ~out.compiled

\* x and y are the same text under the case rule (cs: case-sensitive)
SameText(x, y, cs) ==
    /\ Len(x) = Len(y)
    /\ \A k \in 1..Len(x) : IF cs THEN x[k] = y[k] ELSE Lower(x[k]) = Lower(y[k])

\* w occurs in t as one contiguous run of characters
Occurs(w, t, cs) ==
    \E k \in 0..(Len(t) - Len(w)) : SameText(SubSeq(t, k + 1, k + Len(w)), w, cs)

WordCharAt(t, k) == k \in 1..Len(t) /\ IsWord(t[k])

\* a word starts or ends between the characters k and k+1 of t
BoundaryAt(t, k) == WordCharAt(t, k) # WordCharAt(t, k + 1)

\* w occurs in t with a word boundary on both sides
WholeWordOccurs(w, t, cs) ==
    \E k \in 0..(Len(t) - Len(w)) :
        /\ SameText(SubSeq(t, k + 1, k + Len(w)), w, cs)
        /\ BoundaryAt(t, k) /\ BoundaryAt(t, k + Len(w))

\* the query without its case flag, if it has one
Unflagged(q) ==
    IF EndsWith(q, <<":", "c">>) \/ EndsWith(q, <<":", "i">>)
    THEN SubSeq(q, 1, Len(q) - 2) ELSE q

\* the fragment of the (trimmed) token tok matches somewhere in t
FragmentMatches(tok, t, cs) ==
    Search(_compile(_token_to_regex(Strip(tok)), cs), t)

\* C5 (as claimed): for an AND query an entry is a hit exactly when every
\* token's fragment matches somewhere in its text, wherever the occurrences
\* are, also in a text with line breaks.
C5_AndMatchesAllTokens ==
    out.surface = "terminal" /\ out.label = "AND"
        => LET parts == SplitOn(Unflagged(out.query), AND_SEP) IN
           \A k \in 1..Len(raw) :
               IsHit(raw[k]) <=>
                   \A j \in 1..Len(parts) :
                       FragmentMatches(parts[j], raw[k].txt, out.cs)

\* C6: a whole-word query "=w" hits a text exactly when w occurs in it (under
\* the query's case rule) with a word boundary on both sides: at the start or
\* end of the text or next to punctuation, never inside a longer word.
C6_WholeWord ==
    out.surface = "terminal" /\ out.label = "whole-word"
        => \A k \in 1..Len(raw) :
               IsHit(raw[k]) <=>
                   WholeWordOccurs(Tail(Unflagged(out.query)), raw[k].txt, out.cs)

\* C6 witness: "=a" hit the text "a." (the word followed by punctuation).
C6_Witness ==
    /\ out.surface = "terminal" /\ out.label = "whole-word"
    /\ out.query = <<"=", "a">>
    /\ Len(raw) = 1 /\ raw[1].txt = <<"a", ".">> /\ IsHit(raw[1])

C8_OrMatchesSomeToken ==
    out.surface = "terminal" /\ out.label = "OR"
        => LET parts == SplitOn(Unflagged(out.query), OR_SEP) IN
           \A k \in 1..Len(raw) :
               IsHit(raw[k]) <=>
                   \E j \in 1..Len(parts) :
                       FragmentMatches(parts[j], raw[k].txt, out.cs)

\* C8 witness: "a | b" hit a text that holds "b" and no "a".
C8_Witness ==
    /\ out.surface = "terminal" /\ out.label = "OR"
    /\ out.query = <<"a">> \o OR_SEP \o <<"b">>
    /\ Len(raw) = 1 /\ raw[1].txt = <<".", "b">> /\ IsHit(raw[1])

\* C9 (as claimed): a query is treated as a phrase only when an opening and a
\* closing double quote wrap an interior, and it then hits exactly the texts
\* in which the interior occurs as one contiguous literal under the case
\* rule.
C9_PhraseOnlyWhenWrapped ==
    out.surface = "terminal" /\ out.label = "phrase"
        => LET q == Unflagged(out.query) IN
           /\ Len(q) >= 2 /\ q[1] = QUOTE /\ q[Len(q)] = QUOTE
           /\ \A k \in 1..Len(raw) :
                  IsHit(raw[k]) <=>
                      Occurs(SubSeq(q, 2, Len(q) - 1), raw[k].txt, out.cs)

\* the position in raw of the entry e
PosInRaw(e) == CHOOSE k \in 1..Len(raw) : raw[k] = e

\* C10: the hit list is the subsequence of the mapping's entries, in the
\* mapping's order, whose text the pattern matches: every hit is a matching
\* entry, every matching entry is a hit, and the hits are in strictly
\* increasing position (none twice, none out of order).
C10_HitsInCorpusOrder ==
    out.compiled
        => LET pat == PatternOf(out) IN
           /\ \A j \in 1..Len(out.hits) :
                  \E k \in 1..Len(raw) :
                      raw[k] = out.hits[j] /\ Search(pat, raw[k].txt)
           /\ \A k \in 1..Len(raw) : Search(pat, raw[k].txt) => IsHit(raw[k])
           /\ \A j1, j2 \in 1..Len(out.hits) :
                  j1 < j2 => PosInRaw(out.hits[j1]) < PosInRaw(out.hits[j2])

\* C10 witness: "a" hit two entries; it occurs later in the first hit's text
\* ("b a") than in the second's ("a"), and the hits are in the mapping's
\* order.
C10_Witness ==
    /\ out.compiled /\ out.query = <<"a">>
    /\ Len(raw) = 2 /\ out.hits = raw
    /\ raw[1].txt = <<"b", " ", "a">> /\ raw[2].txt = <<"a">>

\* what main receives from the search recorded in o: (book, chap), or
\* (None, ctx)
Returned(o) ==
    [none |-> ~o.loc, book |-> o.book, chap |-> o.chap, ctx |-> o.ctx]

\* C11 (as claimed): what search hands back to main for a query it turns
\* down differs from what it hands back for every query that compiles and
\* matches nothing, and a search with no hit never ends as an error.
C11_RejectionDistinctFromNoMatch ==
    /\ pc = "returned" /\ out.outcome = "mixed"
           => \A t \in Terms :
                  LET o == search(raw, t) IN
                  o.outcome = "nomatch" => Returned(o) # Returned(out)
    /\ out.outcome = "nomatch" => pc # "crashed"

\* s is the decimal spelling of a whole number above zero, as int() reads it
IsPositiveInt(s) == ParseInt(s).ok /\ ParseInt(s).val > 0

\* the key has a ':', a positive verse after the last one and, before it, a
\* book name of at least one word followed by a positive chapter
WellFormedKey(ref) ==
    LET sp    == RSplitColon(ref)
        parts == IF Len(sp) = 2 THEN SplitWs(sp[1]) ELSE <<>>
    IN  /\ Len(sp) = 2
        /\ IsPositiveInt(sp[2])
        /\ Len(parts) >= 2
        /\ IsPositiveInt(parts[Len(parts)])

\* the index b holds a verse at the place the key ref decodes to
Inserted(b, ref) ==
    LET d == Decode(ref) IN
    /\ d.kind = "ok"
    /\ d.book \in DOMAIN b
    /\ d.chap \in DOMAIN b[d.book]
    /\ d.verse \in DOMAIN b[d.book][d.chap]

\* C12 (as claimed): the build accepts a key only if it has a ':', a positive
\* verse after the last ':', a positive chapter as the last word before it
\* and a book name of at least one word before the chapter; every other key
\* fails with the error the build recovers from and is never inserted into
\* the nested index.
C12_DecodeAcceptsOnlyWellFormed ==
    \A k \in 1..i :
        ~WellFormedKey(raw[k].ref)
            => /\ Decode(raw[k].ref).kind = "value"
               /\ ~Inserted(bible, raw[k].ref)

RECURSIVE Decimal(_)
\* str(n) for an integer n
Decimal(n) ==
    IF n < 0 THEN <<"-">> \o Decimal(0 - n)
    ELSE IF n < 10
    THEN <<<<"0", "1", "2", "3", "4", "5", "6", "7", "8", "9">>[n + 1]>>
    ELSE Decimal(n \div 10) \o Decimal(n % 10)

\* "<Book> <Chapter>:<Verse>" for the decoded key d
Encode(d) == d.book \o <<" ">> \o Decimal(d.chap) \o <<":">> \o Decimal(d.verse)

\* the place in the index the key ref decodes to
Triple(ref) ==
    LET d == Decode(ref) IN <<d.book, d.chap, d.verse>>

\* C13 (as claimed): every key the build accepts is the formatting
\* "<Book> <Chapter>:<Verse>" of what it decodes to, so two distinct accepted
\* keys never decode to the same place and every accepted key keeps its own
\* text in the nested index.
C13_RoundTrip ==
    \A k \in 1..i :
        Decode(raw[k].ref).kind = "ok"
            => /\ Encode(Decode(raw[k].ref)) = raw[k].ref
               /\ \A j \in 1..i :
                      j # k /\ Decode(raw[j].ref).kind = "ok"
                          => Triple(raw[j].ref) # Triple(raw[k].ref)
               /\ Inserted(bible, raw[k].ref)
                      => LET d == Decode(raw[k].ref) IN
                         bible[d.book][d.chap][d.verse] = raw[k].txt

\* C14 (as claimed): for every query and every corpus the terminal reader's
\* search and the web UI's search give the same hit list (same entries, same
\* order), also for whole-word, phrase, AND, OR and mixed-operator queries.
C14_SameHitsOnEverySurface ==
    out.surface # "none"
        => search(raw, out.query).hits = web_search(raw, out.query).hits

\* C15 (as claimed): the context string search hands back for a hit list has
\* exactly one line per hit, and its k-th line is "<reference>: <text>" of
\* the k-th hit with the text unchanged.
C15_OneLinePerHit ==
    pc = "returned" /\ out.outcome = "found" /\ ~out.loc /\ out.ctx # <<>>
        => LET lines == SplitOn(out.ctx, <<NL>>) IN
           /\ Len(lines) = Len(out.hits)
           /\ \A k \in 1..Len(out.hits) :
                  lines[k] = out.hits[k].ref \o <<":", " ">> \o out.hits[k].txt

RECURSIVE Folded(_)
\* the lines "<reference>: <text>" of the hits, each after the first on a
\* new line
Folded(hits) ==
    IF hits = <<>> THEN <<>>
    ELSE LET h    == hits[Len(hits)]
             line == h.ref \o <<":", " ">> \o h.txt
         IN  IF Len(hits) = 1 THEN line
             ELSE Folded(SubSeq(hits, 1, Len(hits) - 1)) \o <<NL>> \o line

\* no reference and no text of the hits holds a line break
NoLineBreak(hits) ==
    \A k \in 1..Len(hits) :
        ~Contains(hits[k].ref, <<NL>>) /\ ~Contains(hits[k].txt, <<NL>>)

\* C15 (amended): the context string is the hits' "<reference>: <text>",
\* text unchanged, in hit order and separated by one line break; it has
\* exactly one line per hit when no reference and no text holds a line break.
C15_ContextJoinsHitLines ==
    pc = "returned" /\ out.outcome = "found" /\ ~out.loc /\ out.ctx # <<>>
        => /\ out.ctx = Folded(out.hits)
           /\ NoLineBreak(out.hits) => C15_OneLinePerHit

\* C15 witness: search handed back the context of two hits.
C15_Witness ==
    /\ pc = "returned" /\ out.outcome = "found" /\ ~out.loc
    /\ Len(out.hits) = 2 /\ NoLineBreak(out.hits)
    /\ Cardinality(FindAll(out.ctx, <<NL>>)) = 1

\* the label the priority order gives the query q left after the flag:
\* regex form, then both operators ("none": turned down), then AND, then OR,
\* then the three single-token forms
LabelByPriority(q) ==
    CASE Len(q) >= 3 /\ q[1] = "/" /\ q[Len(q)] = "/" -> "regex"
      [] OTHER ->
         CASE Contains(q, AND_SEP) /\ Contains(q, OR_SEP) -> "none"
           [] OTHER ->
              CASE Contains(q, AND_SEP) -> "AND"
                [] OTHER ->
                   CASE Contains(q, OR_SEP) -> "OR"
                     [] OTHER ->
                        CASE q # <<>> /\ q[1] = QUOTE /\ q[Len(q)] = QUOTE
                                 -> "phrase"
                          [] OTHER ->
                             IF q # <<>> /\ q[1] = "=" THEN "whole-word"
                             ELSE "substring"

\* C16: the terminal reader's search classifies the query left after the case
\* flag in the order regex form, mixed-operator rejection, AND, OR, single
\* token: a query is turned down exactly when the order says so, a compiled
\* query carries the one label the order gives it, only a regex-form query
\* can fail to compile, a regex-form query is matched with its interior as
\* the pattern whatever the interior holds, and a query shorter than three
\* characters is never regex.
C16_ClassifiedInPriorityOrder ==
    out.surface = "terminal"
        => LET q == Unflagged(out.query) IN
           /\ out.outcome = "mixed" <=> LabelByPriority(q) = "none"
           /\ out.compiled => out.label = LabelByPriority(q)
           /\ ~out.compiled /\ out.outcome = "raised"
                  => LabelByPriority(q) = "regex"
           /\ out.compiled /\ LabelByPriority(q) = "regex"
                  => out.hits
                       = Hits(raw, _compile(SubSeq(q, 2, Len(q) - 1), out.cs))
           /\ out.compiled /\ Len(q) < 3 => out.label # "regex"

\* C16 witness: "/a | b/" was compiled as a regex and hit the text "a b",
\* which an OR query with the tokens "/a" and "b/" does not hit.
C16_Witness ==
    /\ out.surface = "terminal" /\ out.label = "regex"
    /\ out.query = <<"/", "a">> \o OR_SEP \o <<"b", "/">>
    /\ Len(raw) = 1 /\ raw[1].txt = <<"a", " ", "b">> /\ IsHit(raw[1])

\* C17 (as claimed): in the terminal reader the nested index holds a verse
\* exactly for each processed key that decoded, every book of the index has a
\* chapter and every chapter a verse: a key reported as unparseable leaves
\* no empty book and no empty chapter.
C17_IndexHoldsExactlyDecodedKeys ==
    app = "terminal"
        => /\ \A k \in 1..i :
                  Decode(raw[k].ref).kind = "ok" => Inserted(bible, raw[k].ref)
           /\ \A b \in DOMAIN bible :
                  /\ DOMAIN bible[b] # {}
                  /\ \A c \in DOMAIN bible[b] :
                         /\ DOMAIN bible[b][c] # {}
                         /\ \A v \in DOMAIN bible[b][c] :
                                \E k \in 1..i :
                                    /\ Decode(raw[k].ref).kind = "ok"
                                    /\ Triple(raw[k].ref) = <<b, c, v>>

\* the session is at the first chapter of the first book
AtFirstChapter(s) ==
    s.book = books[1] /\ s.chap = Min(DOMAIN bible[s.book])

\* the session is at the last chapter of the last book
AtLastChapter(s) ==
    s.book = books[Len(books)] /\ s.chap = Max(DOMAIN bible[s.book])

\* C18 (as claimed): in the web UI the session's (book, chap), once set,
\* always names a chapter of the nested index, whatever callbacks have run
\* and whatever the chapter numbers of the books; prev_chapter at the first
\* chapter of the first book and next_chapter at the last chapter of the last
\* book change nothing.
C18_SessionNamesExistingChapter ==
    app = "web" /\ session_state # NoSession
        => /\ ChapterExists(session_state)
           /\ AtFirstChapter(session_state)
                  => prev_chapter(session_state) = session_state
           /\ AtLastChapter(session_state)
                  => next_chapter(session_state) = session_state

====
